---- MODULE Spec2Model ----
(***************************************************************************)
(* A model of libstd/error.rs: the Error trait with its default methods,   *)
(* the reflexive FromError instance, and the downcasting extension methods *)
(* is / downcast_ref / downcast_mut on &Error and &mut Error.              *)
(*                                                                         *)
(* Error values live on a heap.  A trait-object handle is the pair         *)
(* (data pointer, vtable) of raw::TraitObject plus the borrow kind of the  *)
(* reference (&Error or &mut Error).  The downcasts are modelled           *)
(* statement by statement so that the order of the type-identity check and *)
(* of the pointer reinterpretation is visible.                             *)
(***************************************************************************)
EXTENDS Integers, Sequences, FiniteSets, TLC

\* Number of error values on the heap (also the longest cause chain).
NAddr == 3
\* Number of distinct contents of MissingFile's path field.
NVal == 2

Addr == 1..NAddr
Null == 0
Vals == 1..NVal

\* The concrete error types of the universe: MissingFile overrides detail,
\* WrappedError overrides cause, A and B implement description only.
Types == {"MissingFile", "WrappedError", "A", "B"}
TypeSeq == <<"MissingFile", "WrappedError", "A", "B">>

VARIABLES heap, cur, hops, pc, arg, to, ret, wr

vars == <<heap, cur, hops, pc, arg, to, ret, wr>>

----------------------------------------------------------------------------
\* Values

NoObj == [ty |-> "-", path |-> 0, inner |-> Null]
NoHandle == [data |-> Null, vtable |-> "-", mut |-> FALSE]
NoRef == [addr |-> Null, ty |-> "-", mut |-> FALSE]
NoTO == [data |-> Null, vtable |-> "-"]
NoWrite == [h |-> NoHandle, val |-> 0]

\* Option<&Error>, Option<String>, Option<&T>
NoneHandle == [some |-> FALSE, h |-> NoHandle]
SomeHandle(h) == [some |-> TRUE, h |-> h]
NoneText == [some |-> FALSE, val |-> 0]
SomeText(v) == [some |-> TRUE, val |-> v]
NoneRef == [some |-> FALSE, ref |-> NoRef]
SomeRef(r) == [some |-> TRUE, ref |-> r]

\* The values a type's fields can hold at address a: only MissingFile has a
\* path, only WrappedError owns an inner error, stored at a higher address.
ObjectsAt(a) ==
    {[ty |-> "MissingFile", path |-> v, inner |-> Null] : v \in Vals}
    \cup {[ty |-> t, path |-> 0, inner |-> Null] : t \in {"A", "B"}}
    \cup {[ty |-> "WrappedError", path |-> 0, inner |-> i] : i \in (a + 1)..NAddr}

Heaps == {hp \in [Addr -> UNION {ObjectsAt(a) : a \in Addr}] :
            \A a \in Addr : hp[a] \in ObjectsAt(a)}

\* Coercion of a reference to the concrete value at address a to a trait
\* object: the vtable is that of the value's concrete type.
AsError(hp, a, m) == [data |-> a, vtable |-> hp[a].ty, mut |-> m]

----------------------------------------------------------------------------
\* Type-Identity Oracle

TypeId_of(T) == CHOOSE i \in 1..Len(TypeSeq) : TypeSeq[i] = T

get_type_id(self) == TypeId_of(self.vtable)

----------------------------------------------------------------------------
\* trait Error

default_detail(self) == NoneText

\* A default that hands back the error itself as its own cause.
default_cause_Self(self) == SomeHandle([self EXCEPT !.mut = FALSE])

default_cause(self) == NoneHandle

MissingFile_description(self) == "file not found"

MissingFile_detail(self) == SomeText(heap[self.data].path)

WrappedError_description(self) == "wrapped error"

WrappedError_cause(self) ==
    SomeHandle(AsError(heap, heap[self.data].inner, FALSE))

description(self) ==
    CASE self.vtable = "MissingFile" -> MissingFile_description(self)
      [] self.vtable = "WrappedError" -> WrappedError_description(self)
      [] self.vtable = "A" -> "error A"
      [] OTHER -> "error B"

detail(self) ==
    IF self.vtable = "MissingFile" THEN MissingFile_detail(self)
    ELSE default_detail(self)

cause(self) ==
    IF self.vtable = "WrappedError" THEN WrappedError_cause(self)
    ELSE default_cause(self)

----------------------------------------------------------------------------
\* impl<E> FromError<E> for E

\* A conversion that rebuilds the value and leaves its cause behind.
from_error_Shallow(err) == [err EXCEPT !.inner = Null]

from_error(err) == err

----------------------------------------------------------------------------
\* impl AnyRefExt for &Error, impl AnyMutRefExt for &mut Error

\* The identifier taken from the static type of the receiver (the trait
\* object type itself, which is no member of the universe) instead of from
\* the value behind it.
is_StaticReceiver(self, T) ==
    LET t == TypeId_of(T)
        boxed == 0
    IN t = boxed

\* A test that also accepts the type of the direct cause.
is_ThroughCause(self, T) ==
    LET t == TypeId_of(T)
        boxed == get_type_id(self)
    IN \/ t = boxed
       \/ /\ cause(self).some
          /\ t = get_type_id(cause(self).h)

is(self, T) ==
    LET t == TypeId_of(T)
        boxed == get_type_id(self)
    IN t = boxed

\* The raw representation copied from the wrong place: its data pointer
\* designates another value.
transmute_copy_Elsewhere(self) ==
    [data |-> (self.data % NAddr) + 1, vtable |-> self.vtable]

\* The raw representation of the trait object.
transmute_copy(self) == [data |-> self.data, vtable |-> self.vtable]

\* The data pointer reinterpreted as a reference to T.
transmute(data, T, m) == [addr |-> data, ty |-> T, mut |-> m]

\* The whole method, as the composition of the statements above.
downcast_ref(self, T) ==
    IF is(self, T)
    THEN SomeRef(transmute(transmute_copy(self).data, T, FALSE))
    ELSE NoneRef

downcast_mut(self, T) ==
    IF is(self, T)
    THEN SomeRef(transmute(transmute_copy(self).data, T, TRUE))
    ELSE NoneRef

----------------------------------------------------------------------------
\* The result of the last completed call.

Ret(op, h, U) ==
    [op |-> op, h |-> h, U |-> U, some |-> FALSE, b |-> FALSE,
     ref |-> NoRef, hnd |-> NoHandle, num |-> 0, txt |-> "",
     in |-> NoObj, out |-> NoObj]

Init ==
    /\ heap \in Heaps
    /\ \E a \in Addr, m \in BOOLEAN : cur = AsError(heap, a, m)
    /\ hops = 0
    /\ pc = "idle"
    /\ arg = "-"
    /\ to = NoTO
    /\ ret = Ret("-", NoHandle, "-")
    /\ wr = NoWrite

----------------------------------------------------------------------------
\* Calls that complete in one step

IsCall ==
    /\ pc = "idle"
    /\ \E U \in Types :
         ret' = [Ret("is", cur, U) EXCEPT !.b = is(cur, U)]
    /\ UNCHANGED <<heap, cur, hops, pc, arg, to, wr>>

DescriptionCall ==
    /\ pc = "idle"
    /\ ret' = [Ret("description", cur, "-") EXCEPT !.txt = description(cur)]
    /\ UNCHANGED <<heap, cur, hops, pc, arg, to, wr>>

\* A detail() that moves the path out of the value it is called on.
DetailCall_Take ==
    /\ pc = "idle"
    /\ LET d == detail(cur)
       IN ret' = [Ret("detail", cur, "-") EXCEPT !.some = d.some, !.num = d.val]
    /\ heap' = [heap EXCEPT ![cur.data].path = 0]
    /\ UNCHANGED <<cur, hops, pc, arg, to, wr>>

DetailCall ==
    /\ pc = "idle"
    /\ LET d == detail(cur)
       IN ret' = [Ret("detail", cur, "-") EXCEPT !.some = d.some, !.num = d.val]
    /\ UNCHANGED <<heap, cur, hops, pc, arg, to, wr>>

CauseCall ==
    /\ pc = "idle"
    /\ LET c == cause(cur)
       IN ret' = [Ret("cause", cur, "-") EXCEPT !.some = c.some, !.hnd = c.h]
    /\ UNCHANGED <<heap, cur, hops, pc, arg, to, wr>>

\* The consumer follows the cause link: it now holds the handle cause() gave.
WalkCause ==
    /\ pc = "idle"
    /\ cause(cur).some
    /\ hops < NAddr + 1
    /\ cur' = cause(cur).h
    /\ hops' = hops + 1
    /\ UNCHANGED <<heap, pc, arg, to, ret, wr>>

FromErrorCall ==
    /\ pc = "idle"
    /\ \E a \in Addr :
         ret' = [Ret("from_error", NoHandle, heap[a].ty) EXCEPT
                   !.in = heap[a], !.out = from_error(heap[a])]
    /\ UNCHANGED <<heap, cur, hops, pc, arg, to, wr>>

----------------------------------------------------------------------------
\* downcast_ref, statement by statement

DowncastRefCall ==
    /\ pc = "idle"
    /\ \E U \in Types : arg' = U
    /\ pc' = "dr_is"
    /\ UNCHANGED <<heap, cur, hops, to, ret, wr>>

\* The two branches of the test exchanged.
DowncastRefCheck_Swapped ==
    /\ pc = "dr_is"
    /\ IF ~is(cur, arg)
       THEN /\ pc' = "dr_raw"
            /\ UNCHANGED <<arg, ret>>
       ELSE /\ pc' = "idle"
            /\ arg' = "-"
            /\ ret' = Ret("downcast_ref", cur, arg)
    /\ UNCHANGED <<heap, cur, hops, to, wr>>

DowncastRefCheck ==
    /\ pc = "dr_is"
    /\ IF is(cur, arg)
       THEN /\ pc' = "dr_raw"
            /\ UNCHANGED <<arg, ret>>
       ELSE /\ pc' = "idle"
            /\ arg' = "-"
            /\ ret' = Ret("downcast_ref", cur, arg)
    /\ UNCHANGED <<heap, cur, hops, to, wr>>

DowncastRefRaw ==
    /\ pc = "dr_raw"
    /\ to' = transmute_copy(cur)
    /\ pc' = "dr_cast"
    /\ UNCHANGED <<heap, cur, hops, arg, ret, wr>>

DowncastRefCast ==
    /\ pc = "dr_cast"
    /\ ret' = [Ret("downcast_ref", cur, arg) EXCEPT
                 !.some = TRUE, !.ref = transmute(to.data, arg, FALSE)]
    /\ pc' = "idle"
    /\ arg' = "-"
    /\ to' = NoTO
    /\ UNCHANGED <<heap, cur, hops, wr>>

----------------------------------------------------------------------------
\* downcast_mut, statement by statement; the receiver is a &mut Error

DowncastMutCall ==
    /\ pc = "idle"
    /\ cur.mut
    /\ \E U \in Types : arg' = U
    /\ pc' = "dm_is"
    /\ UNCHANGED <<heap, cur, hops, to, ret, wr>>

\* The test left out: the reinterpretation follows unconditionally.
DowncastMutCheck_Skipped ==
    /\ pc = "dm_is"
    /\ pc' = "dm_raw"
    /\ UNCHANGED <<heap, cur, hops, arg, to, ret, wr>>

DowncastMutCheck ==
    /\ pc = "dm_is"
    /\ IF is(cur, arg)
       THEN /\ pc' = "dm_raw"
            /\ UNCHANGED <<arg, ret>>
       ELSE /\ pc' = "idle"
            /\ arg' = "-"
            /\ ret' = Ret("downcast_mut", cur, arg)
    /\ UNCHANGED <<heap, cur, hops, to, wr>>

DowncastMutRaw ==
    /\ pc = "dm_raw"
    /\ to' = transmute_copy(cur)
    /\ pc' = "dm_cast"
    /\ UNCHANGED <<heap, cur, hops, arg, ret, wr>>

\* The mutable reference made to a temporary copy's place instead of to
\* the value the handle designates.
DowncastMutCast_Elsewhere ==
    /\ pc = "dm_cast"
    /\ ret' = [Ret("downcast_mut", cur, arg) EXCEPT
                 !.some = TRUE,
                 !.ref = transmute((to.data % NAddr) + 1, arg, TRUE)]
    /\ pc' = "idle"
    /\ arg' = "-"
    /\ to' = NoTO
    /\ UNCHANGED <<heap, cur, hops, wr>>

DowncastMutCast ==
    /\ pc = "dm_cast"
    /\ ret' = [Ret("downcast_mut", cur, arg) EXCEPT
                 !.some = TRUE, !.ref = transmute(to.data, arg, TRUE)]
    /\ pc' = "idle"
    /\ arg' = "-"
    /\ to' = NoTO
    /\ UNCHANGED <<heap, cur, hops, wr>>

\* The caller assigns the path field through the &mut MissingFile it got.
WriteThrough ==
    /\ pc = "idle"
    /\ ret.op = "downcast_mut"
    /\ ret.some
    /\ ret.ref.mut
    /\ ret.ref.ty = "MissingFile"
    /\ \E v \in Vals :
         /\ heap' = [heap EXCEPT ![ret.ref.addr].path = v]
         /\ wr' = [h |-> ret.h, val |-> v]
    /\ UNCHANGED <<cur, hops, pc, arg, to, ret>>

----------------------------------------------------------------------------

Next ==
    \/ IsCall
    \/ DescriptionCall
    \/ DetailCall
    \/ CauseCall
    \/ WalkCause
    \/ FromErrorCall
    \/ DowncastRefCall
    \/ DowncastRefCheck
    \/ DowncastRefRaw
    \/ DowncastRefCast
    \/ DowncastMutCall
    \/ DowncastMutCheck
    \/ DowncastMutRaw
    \/ DowncastMutCast
    \/ WriteThrough

Spec == Init /\ [][Next]_vars

\* The consumer that only walks the cause chain; it keeps walking while
\* cause() yields a handle.
WalkNext == CauseCall \/ WalkCause

WalkSpec == Init /\ [][WalkNext]_vars /\ WF_vars(WalkCause)

----------------------------------------------------------------------------
\* Properties

\* The concrete type of the value a handle designates.
ConcreteType(h) == heap[h.data].ty

\* Whether a completed is / downcast_ref call reported a match.
Matched == IF ret.op = "is" THEN ret.b ELSE ret.some

PureOps == {"is", "downcast_ref", "description", "detail", "cause"}

\* C1: is::<U>(H) returns true exactly when U is the concrete type of the
\* value H designates; the answer is the comparison of the two type
\* identifiers and nothing else.
C1_IsIffSameType ==
    ret.op = "is" =>
        /\ ret.b <=> (ret.U = ConcreteType(ret.h))
        /\ ret.b <=> (TypeId_of(ret.U) = get_type_id(ret.h))

\* An is::<B> that was answered false on a handle wrapping an A.
C1_Witness ==
    /\ ret.op = "is"
    /\ ret.U = "B"
    /\ ConcreteType(ret.h) = "A"
    /\ ~ret.b

\* C2: downcast_ref::<U>(H) yields Some exactly when is::<U>(H) is true and
\* None otherwise; a mismatch is a plain None carrying no reference.
C2_DowncastRefIffIs ==
    ret.op = "downcast_ref" =>
        /\ ret.some <=> is(ret.h, ret.U)
        /\ ~ret.some => ret.ref = NoRef
        /\ [some |-> ret.some, ref |-> ret.ref] = downcast_ref(ret.h, ret.U)

\* A downcast_ref to a type other than the value's that returned None.
C2_Witness ==
    /\ ret.op = "downcast_ref"
    /\ ret.U # ConcreteType(ret.h)
    /\ ~ret.some
    /\ pc = "idle"

\* C3: when T is the concrete type behind H, the reference downcast_ref::<T>
\* gives designates the value at H's data pointer, so what is read through it
\* is that value's fields.
C3_DowncastRefSameValue ==
    (ret.op = "downcast_ref" /\ ret.U = ConcreteType(ret.h)) =>
        /\ ret.some
        /\ ret.ref.addr = ret.h.data
        /\ ret.ref.ty = ConcreteType(ret.h)
        /\ heap[ret.ref.addr] = heap[ret.h.data]

\* A MissingFile reached through downcast_ref, with its path readable.
C3_Witness ==
    /\ ret.op = "downcast_ref"
    /\ ret.some
    /\ ret.ref.ty = "MissingFile"
    /\ heap[ret.ref.addr].path = NVal

\* C4: the reflexive conversion returns its argument: from_error(x) = x.
C4_FromErrorIdentity ==
    ret.op = "from_error" => ret.out = ret.in

\* A wrapping error converted to its own type, still owning its cause.
C4_Witness ==
    /\ ret.op = "from_error"
    /\ ret.in.ty = "WrappedError"
    /\ ret.out.inner # Null

\* C5: downcast_mut::<T>(H) yields Some exactly when T is the concrete type
\* behind H; the mutable reference designates the value at H's data pointer,
\* so a write through it is what a later detail() through the handle
\* reports, and the value keeps its concrete type.
C5_DowncastMut ==
    /\ ret.op = "downcast_mut" =>
         /\ ret.some <=> (ret.U = ConcreteType(ret.h))
         /\ [some |-> ret.some, ref |-> ret.ref] = downcast_mut(ret.h, ret.U)
         /\ ret.some => /\ ret.ref.addr = ret.h.data
                        /\ ret.ref.ty = ret.U
                        /\ ret.ref.mut
    /\ wr # NoWrite =>
         /\ heap[wr.h.data].path = wr.val
         /\ detail(wr.h) = SomeText(wr.val)
         /\ ConcreteType(wr.h) = wr.h.vtable
    /\ (wr # NoWrite /\ ret.op = "detail" /\ ret.h.data = wr.h.data) =>
         (ret.some /\ ret.num = wr.val)

\* A detail() answered through the handle after a write through the
\* reference downcast_mut gave.
C5_Witness ==
    /\ wr # NoWrite
    /\ ret.op = "detail"
    /\ ret.h = wr.h
    /\ ret.num = wr.val

\* C6: a type that does not override detail() reports no detail and a type
\* that does not override cause() reports no cause; MissingFile, which
\* overrides description and detail only, reports no cause.
C6_Defaults ==
    /\ (ret.op = "detail" /\ ConcreteType(ret.h) # "MissingFile") =>
         (~ret.some /\ ret.num = 0)
    /\ (ret.op = "cause" /\ ConcreteType(ret.h) # "WrappedError") =>
         (~ret.some /\ ret.hnd = NoHandle)

\* cause() answered None on a MissingFile.
C6_Witness ==
    /\ ret.op = "cause"
    /\ ConcreteType(ret.h) = "MissingFile"
    /\ ~ret.some

\* A step of one of the five queries.
QueryStep ==
    \/ IsCall
    \/ DescriptionCall
    \/ DetailCall
    \/ CauseCall
    \/ DowncastRefCall
    \/ DowncastRefCheck
    \/ DowncastRefRaw
    \/ DowncastRefCast

\* C7: is, downcast_ref, description, detail and cause change nothing: every
\* step of them leaves the heap (values, types, cause links) and the handle
\* as they were, and a call that repeats the previous call's operation,
\* handle and type gets the previous answer.
C7_PureQueries ==
    [][QueryStep =>
         /\ heap' = heap
         /\ cur' = cur
         /\ wr' = wr
         /\ (ret'.op = ret.op /\ ret'.h = ret.h /\ ret'.U = ret.U) => ret' = ret
      ]_vars

\* A second downcast_ref of the same handle to the same type under way, the
\* first one's answer still at hand.
C7_Witness ==
    /\ ret.op = "downcast_ref"
    /\ ret.some
    /\ ret.h = cur
    /\ pc = "dr_cast"
    /\ arg = ret.U

\* C8: is and downcast_ref look at the value the handle designates and not
\* at its cause: asked for the (different) type of the cause they fail on
\* the outer handle, and asked for the type of the value they succeed on the
\* handle cause() returned.
C8_NoLookThroughCause ==
    ret.op \in {"is", "downcast_ref"} =>
        /\ (/\ cause(ret.h).some
            /\ ConcreteType(cause(ret.h).h) # ConcreteType(ret.h)
            /\ ret.U = ConcreteType(cause(ret.h).h)) => ~Matched
        /\ (hops > 0 /\ ret.h = cur /\ ret.U = ConcreteType(cur)) => Matched

\* is::<MissingFile> failed on the wrapping error, and the downcast_ref of
\* the handle its cause() returned has passed the test.
C8_Witness ==
    /\ ret.op = "is"
    /\ ret.U = "MissingFile"
    /\ ConcreteType(ret.h) = "WrappedError"
    /\ ~ret.b
    /\ hops > 0
    /\ cause(ret.h).h = cur
    /\ pc = "dr_cast"
    /\ arg = "MissingFile"

\* C9: walking cause() over a chain of at most NAddr values takes fewer than
\* NAddr steps and reaches a value whose cause() yields nothing.
C9_WalkTerminates ==
    /\ [](hops < NAddr)
    /\ <>(~cause(cur).some)

\* A chain of the full length walked to its end.
C9_Witness ==
    /\ hops = NAddr - 1
    /\ ~cause(cur).some

\* C10: in downcast_ref and downcast_mut the reinterpretation of the data
\* pointer is only reached, and a reference to T only produced, when the
\* handle's type identifier equals that of T.
C10_CheckBeforeCast ==
    /\ pc \in {"dr_raw", "dr_cast", "dm_raw", "dm_cast"} =>
         TypeId_of(arg) = get_type_id(cur)
    /\ (ret.op \in {"downcast_ref", "downcast_mut"} /\ ret.some) =>
         TypeId_of(ret.ref.ty) = get_type_id(ret.h)

\* downcast_mut about to reinterpret the data pointer it extracted.
C10_Witness ==
    /\ pc = "dm_cast"
    /\ to.data = cur.data
    /\ arg = cur.vtable

====
